---- MODULE Spec2Model ----
(***************************************************************************)
(* Webhook verification and event dispatch of the Instagram integration   *)
(* service: the signature verifier and challenge responder of             *)
(* utils/webhookValidator.ts, the raw-body middleware, and the GET/POST   *)
(* webhook handlers and the OAuth callback of the instagram controller.   *)
(*                                                                         *)
(* JavaScript values are modelled as follows.  An optional value (a       *)
(* header, a query parameter, a property that may be undefined) is a      *)
(* sequence of length at most one: None is undefined, Some(v) is v.       *)
(* The text of a header is a sequence of one-character strings, so that   *)
(* String.replace, Buffer.from and crypto.timingSafeEqual are computed    *)
(* character by character and byte by byte.                               *)
(***************************************************************************)
EXTENDS Integers, Sequences, FiniteSets, TLC

None == <<>>
Some(v) == <<v>>

\* JavaScript truthiness of an optional string: undefined and "" are falsy.
Truthy(opt) == opt # None /\ opt[1] # ""

(***************************************************************************)
(* Bounds of the model.                                                    *)
(***************************************************************************)
\* longest entry list of a webhook envelope
MaxEntries == 2
\* most bytes of insignificant trailing whitespace after the JSON text
MaxPad == 1
\* Number of hexadecimal characters of a digest.  digest('hex') of a SHA-256
\* HMAC has 64; the model keeps a shorter digest, since the verifier only
\* compares the length and the bytes of the header with those of the digest.
HexDigestLen == 12

(***************************************************************************)
(* Text, bytes and the HMAC digest.                                        *)
(***************************************************************************)
HexDigits == <<"0", "1", "2", "3", "4", "5", "6", "7", "8", "9", "a", "b", "c", "d", "e", "f">>


\* the literal 'sha256=' of signature.replace('sha256=', '')
Sha256Prefix == <<"s", "h", "a", "2", "5", "6", "=">>

\* The one character of the model outside ASCII (e with acute accent).
EAcute == "U+00E9"

\* Buffer.from(string): the UTF-8 bytes of a text.  Only the number of bytes
\* a character takes matters to the comparison, so an ASCII character is
\* kept as its own byte and U+00E9 becomes its two bytes 0xC3 0xA9.
RECURSIVE BufferFrom(_)
BufferFrom(text) ==
    IF text = <<>> THEN <<>>
    ELSE (IF Head(text) = EAcute THEN <<"0xC3", "0xA9">> ELSE <<Head(text)>>)
         \o BufferFrom(Tail(text))

\* String.prototype.replace(pattern, '') with a string pattern: removes the
\* first occurrence of the pattern, wherever it is, and nothing else.
ReplaceFirst(text, pattern) ==
    LET n == Len(pattern)
        hits == {k \in 1..(Len(text) - n + 1) : SubSeq(text, k, k + n - 1) = pattern}
    IN  IF hits = {} THEN text
        ELSE LET k == CHOOSE h \in hits : \A g \in hits : h <= g
             IN  SubSeq(text, 1, k - 1) \o SubSeq(text, k + n, Len(text))

\* a text of n copies of one character
RECURSIVE Repeat(_, _)
Repeat(ch, n) == IF n = 0 THEN <<>> ELSE <<ch>> \o Repeat(ch, n - 1)

(***************************************************************************)
(* Webhook payloads.  An event, an entry and an envelope keep the fields   *)
(* the handlers read.  A property that the code reads with ?. is kept as   *)
(* the optional value the read yields (message.sender?.id is senderId).    *)
(***************************************************************************)
\* the Instagram account of the instance in the store, and one without instance
KnownAccount == "17841475047401790"
UnknownAccount == "999"

\* an element of entry.messaging; isNull marks a JSON null in the array
Message(senderId, text, timestamp) ==
    [isNull |-> FALSE, senderId |-> senderId, text |-> text, timestamp |-> timestamp]
NullMessage == [isNull |-> TRUE, senderId |-> None, text |-> None, timestamp |-> None]

\* the value of a change: None when the change has no value
CommentValue(id, text, fromId, fromUsername, mediaId) ==
    Some([id |-> id, text |-> text, fromId |-> fromId,
          fromUsername |-> fromUsername, mediaId |-> mediaId])

\* an element of entry.changes; isNull marks a JSON null in the array
Change(field, value) == [isNull |-> FALSE, field |-> field, value |-> value]
NullChange == [isNull |-> TRUE, field |-> "", value |-> None]

\* A property that should hold an array: absent, an array, or a truthy
\* value that is not iterable (a number, an object).
Absent == [kind |-> "absent", items |-> <<>>]
Array(items) == [kind |-> "array", items |-> items]
Scalar == [kind |-> "scalar", items |-> <<>>]

\* an element of envelope.entry; isNull marks a JSON null in the array
Entry(id, messaging, changes) ==
    [isNull |-> FALSE, id |-> id, messaging |-> messaging, changes |-> changes]
NullEntry == [isNull |-> TRUE, id |-> "", messaging |-> Absent, changes |-> Absent]

MessageSamples ==
    <<Message(Some("u1"), Some("hi"), Some(1700000000)),
      Message(Some("u1"), None, Some(1700000000)),
      Message(None, Some("hi"), Some(1700000000)),
      Message(Some("u1"), Some(""), Some(1700000000)),
      Message(Some("u2"), Some("oi"), None),
      NullMessage>>

ChangeSamples ==
    <<Change("comments", CommentValue(Some("c1"), Some("ola"), Some("u1"), Some("guipratiko"), Some("m1"))),
      Change("mentions", CommentValue(Some("c2"), Some("ola"), Some("u1"), Some("guipratiko"), Some("m1"))),
      Change("comments", CommentValue(Some("c3"), Some("nice"), None, None, None)),
      Change("comments", CommentValue(None, Some("ola"), Some("u1"), None, Some("m1"))),
      Change("comments", CommentValue(Some("c4"), None, Some("u1"), None, Some("m1"))),
      Change("comments", None),
      Change("comments", CommentValue(Some("c5"), Some(""), Some("u1"), None, Some("m1")))>>

\* The entries the envelopes of the model are built from.
EntrySamples ==
    <<Entry(KnownAccount, Array(MessageSamples), Absent),
      Entry(KnownAccount, Absent, Array(ChangeSamples)),
      Entry(KnownAccount, Array(<<MessageSamples[5], MessageSamples[1]>>),
            Array(<<ChangeSamples[3], ChangeSamples[1]>>)),
      Entry(UnknownAccount, Array(<<MessageSamples[1]>>), Array(<<ChangeSamples[1]>>)),
      Entry(KnownAccount, Array(<<>>), Array(<<>>)),
      Entry(KnownAccount, Scalar, Array(<<ChangeSamples[1]>>)),
      Entry(KnownAccount, Array(<<MessageSamples[1]>>), Scalar),
      Entry(KnownAccount, Absent, Array(<<ChangeSamples[1], NullChange, ChangeSamples[3]>>)),
      NullEntry>>

Entries == {EntrySamples[k] : k \in 1..Len(EntrySamples)}

\* all sequences over S of length at most n
SeqUpTo(S, n) == UNION {[1..k -> S] : k \in 0..n}

\* The parsed JSON documents: an object with the properties object and
\* entry, or the JSON value null.
Envelope(object, entry) == [isNull |-> FALSE, object |-> object, entry |-> entry]
NullDoc == [isNull |-> TRUE, object |-> None, entry |-> Absent]

Docs ==
    {Envelope(o, e) : o \in {Some("instagram"), Some("page")},
                      e \in {Absent, Scalar} \cup {Array(l) : l \in SeqUpTo(Entries, MaxEntries)}}
    \cup {Envelope(None, e) : e \in {Absent, Array(<<EntrySamples[1]>>)}}
    \cup {NullDoc}

\* The bytes on the wire: the JSON text of a document followed by pad bytes
\* of whitespace, or bytes that are not JSON at all.
Wire(valid, doc, pad) == [valid |-> valid, doc |-> doc, pad |-> pad]
Wires ==
    {Wire(TRUE, d, p) : d \in Docs, p \in 0..MaxPad} \cup {Wire(FALSE, NullDoc, 0)}

\* JSON.parse(rawBody.toString('utf8'))
JsonParse(wire) == [threw |-> ~wire.valid, value |-> wire.doc]
\* Buffer.from(JSON.stringify(body)): the canonical text, without padding
JsonStringify(doc) == Wire(TRUE, doc, 0)

(***************************************************************************)
(* utils/webhookValidator.ts                                               *)
(***************************************************************************)
EntryIndex(e) == CHOOSE k \in 1..Len(EntrySamples) : EntrySamples[k] = e

RECURSIVE EntryDigits(_)
EntryDigits(list) ==
    IF list = <<>> THEN <<>>
    ELSE <<HexDigits[EntryIndex(Head(list)) + 1]>> \o EntryDigits(Tail(list))

\* The hexadecimal digits that tell one payload from every other.
PayloadDigits(payload) ==
    <<HexDigits[(IF payload.valid THEN 1 ELSE 0) + 1],
      HexDigits[payload.pad + 1],
      HexDigits[(IF payload.doc.isNull THEN 1 ELSE 0) + 1],
      HexDigits[(CASE payload.doc.object = None -> 0
                   [] payload.doc.object = Some("instagram") -> 1
                   [] OTHER -> 2) + 1],
      HexDigits[(CASE payload.doc.entry.kind = "absent" -> 0
                   [] payload.doc.entry.kind = "array" -> 1
                   [] OTHER -> 2) + 1],
      HexDigits[Len(payload.doc.entry.items) + 1]>>
    \o EntryDigits(payload.doc.entry.items)

\* crypto.createHmac('sha256', CLIENT_SECRET).update(payload).digest('hex'):
\* HexDigestLen lower-case hexadecimal characters, different for different
\* payloads.
\* The key is the one configured secret, so it is not a parameter.
HmacSha256Hex(payload) ==
    LET digits == PayloadDigits(payload)
    IN  digits \o Repeat("0", HexDigestLen - Len(digits))

\* Variant for sensitivity runs: a comparison that accepts any two buffers of
\* one length.
timingSafeEqualLengthOnly(a, b) ==
    IF Len(a) # Len(b) THEN [threw |-> TRUE, value |-> FALSE]
    ELSE [threw |-> FALSE, value |-> TRUE]

\* crypto.timingSafeEqual(a, b): throws a RangeError when the byte lengths
\* differ, and otherwise tells whether the bytes are equal.
timingSafeEqual(a, b) ==
    IF Len(a) # Len(b) THEN [threw |-> TRUE, value |-> FALSE]
    ELSE [threw |-> FALSE, value |-> (a = b)]

\* Variant for sensitivity runs: only an absent header counts as missing.
SignatureMissingOnlyUndefined(signature) == signature = None

\* !signature: an absent header and the empty text are falsy
SignatureMissing(signature) == signature = None \/ signature[1] = <<>>

\* The result tells whether the call threw, the value it returned, and the
\* calls of the crypto module it made on the way.
validateWebhookSignature(payload, signature) ==
    IF SignatureMissing(signature) THEN [threw |-> FALSE, value |-> FALSE, crypto |-> <<>>]
    ELSE LET signatureHash == ReplaceFirst(signature[1], Sha256Prefix)
             expectedHash == HmacSha256Hex(payload)
             equal == timingSafeEqual(BufferFrom(signatureHash), BufferFrom(expectedHash))
         IN  [threw |-> equal.threw, value |-> equal.value,
              crypto |-> <<"createHmac", "timingSafeEqual">>]

\* The result is the challenge as given (an optional value: a query
\* parameter may be missing), or null.
Null == [isNull |-> TRUE, value |-> None]
Returned(v) == [isNull |-> FALSE, value |-> v]

\* Variant for sensitivity runs: the token is compared, the mode is not.
verifyWebhookTokenAnyMode(verifyToken, mode, token, challenge) ==
    IF token = Some(verifyToken) THEN Returned(challenge) ELSE Null

verifyWebhookToken(verifyToken, mode, token, challenge) ==
    IF mode = Some("subscribe") /\ token = Some(verifyToken)
    THEN Returned(challenge)
    ELSE Null

\* if (verifiedChallenge): null, undefined and "" are falsy
ChallengeTruthy(result) == ~result.isNull /\ Truthy(result.value)

(***************************************************************************)
(* State.                                                                  *)
(***************************************************************************)
VARIABLES
    config,     \* SERVER_CONFIG.NODE_ENV and INSTAGRAM_CONFIG.WEBHOOK_VERIFY_TOKEN
    instances,  \* the InstagramInstance collection
    req,        \* the request being handled, or the last one handled
    pc,         \* "ready", or the await the handler of req is suspended at
    cursor,     \* index of the entry whose account lookup is awaited
    responses,  \* what has been sent in answer to req, in order
    sigCalls,   \* the calls of validateWebhookSignature made for req
    lookups,    \* the calls of findInstanceByAccountId made for req
    handled,    \* the events of req that reached the point where a workflow is triggered
    oauth,      \* the local variables of the OAuth callback that handles req
    peer,       \* a second OAuth callback in flight, suspended at one of its awaits
    outbound    \* the requests sendDirectMessage and replyToComment made to the platform for req

vars ==
    <<config, instances, req, pc, cursor, responses, sigCalls, lookups, handled, oauth, peer,
      outbound>>

\* process.env.INSTAGRAM_WEBHOOK_VERIFY_TOKEN || ''
VerifyTokens == {"Tokenclerky28111991", ""}
NodeEnvs == {"development", "production"}

\* the instance a completed OAuth flow has stored for KnownAccount
StoredInstance ==
    [id |-> 1, name |-> "Instagram", userId |-> "user1", token |-> "tok1",
     instagramAccountId |-> KnownAccount, username |-> None, accessToken |-> "IGQ-long",
     tokenType |-> "bearer", expiresIn |-> 5184000, isLongLived |-> TRUE,
     status |-> "connected"]

NoRequest == [kind |-> "none"]

\* the locals of oauthCallback before any of them is assigned
NoLocals ==
    [userId |-> None, instanceName |-> None, cleanCode |-> <<>>, shortLivedTokenData |-> None,
     longLivedTokenData |-> None, userInfo |-> None, instance |-> None, subscribed |-> None]

\* no second callback in flight, and none started so far
NoPeer ==
    [req |-> NoRequest, pc |-> "ready", responses |-> <<>>, oauth |-> NoLocals, started |-> 0]

(***************************************************************************)
(* Responses.                                                              *)
(***************************************************************************)
Json(status, body) == [status |-> status, type |-> "json", body |-> body]
Text(status, type, body) == [status |-> status, type |-> type, body |-> body]

\* res.status(200).json({ status: 'ok' })
StatusOk == Json(200, "{status:'ok'}")
\* res.status(403).json({ error: 'Assinatura invalida' })
InvalidSignature == Json(403, "{error:'Assinatura invalida'}")
\* res.status(403).send('Forbidden')
Forbidden == Text(403, "text/html", "Forbidden")

\* middleware/errorHandler: err.statusCode || 500, err.status || 'error'
errorHandler(statusCode, status, message) ==
    Json(IF statusCode = None THEN 500 ELSE statusCode[1],
         "{status:" \o (IF status = None THEN "'error'" ELSE ToString(status[1]))
             \o ",message:'" \o message \o "'}")

(***************************************************************************)
(* The event handlers of the controller.                                   *)
(***************************************************************************)
\* Variant for sensitivity runs: only undefined fields are dropped, an empty
\* text is not.
processDirectMessageDefinedOnly(instance, k, message) ==
    IF message.isNull THEN <<>>
    ELSE IF message.senderId = None \/ message.text = None THEN <<>>
    ELSE <<[handler |-> "processDirectMessage", entry |-> k,
            instance |-> instance.instagramAccountId,
            senderId |-> message.senderId[1], text |-> message.text[1],
            timestamp |-> message.timestamp]>>

\* Variant for sensitivity runs: a message without timestamp is dropped too.
processDirectMessageTimestampRequired(instance, k, message) ==
    IF message.isNull THEN <<>>
    ELSE IF ~Truthy(message.senderId) \/ ~Truthy(message.text) \/ message.timestamp = None
    THEN <<>>
    ELSE <<[handler |-> "processDirectMessage", entry |-> k,
            instance |-> instance.instagramAccountId,
            senderId |-> message.senderId[1], text |-> message.text[1],
            timestamp |-> message.timestamp]>>

\* processDirectMessage: the sequence of events that reach the trigger
\* point (none or one).  A null message raises inside the try and is caught.
processDirectMessage(instance, k, message) ==
    IF message.isNull THEN <<>>
    ELSE IF ~Truthy(message.senderId) \/ ~Truthy(message.text) THEN <<>>
    ELSE <<[handler |-> "processDirectMessage", entry |-> k,
            instance |-> instance.instagramAccountId,
            senderId |-> message.senderId[1], text |-> message.text[1],
            timestamp |-> message.timestamp]>>

\* Variant for sensitivity runs: only undefined fields are dropped, an empty
\* text is not.
processCommentDefinedOnly(instance, k, commentData) ==
    IF commentData = None THEN <<>>
    ELSE IF commentData[1].id = None \/ commentData[1].text = None THEN <<>>
    ELSE <<[handler |-> "processComment", entry |-> k,
            instance |-> instance.instagramAccountId,
            commentId |-> commentData[1].id[1], text |-> commentData[1].text[1],
            fromId |-> commentData[1].fromId, fromUsername |-> commentData[1].fromUsername,
            mediaId |-> commentData[1].mediaId]>>

\* processComment: a missing value raises inside the try and is caught.
processComment(instance, k, commentData) ==
    IF commentData = None THEN <<>>
    ELSE IF ~Truthy(commentData[1].id) \/ ~Truthy(commentData[1].text) THEN <<>>
    ELSE <<[handler |-> "processComment", entry |-> k,
            instance |-> instance.instagramAccountId,
            commentId |-> commentData[1].id[1], text |-> commentData[1].text[1],
            fromId |-> commentData[1].fromId, fromUsername |-> commentData[1].fromUsername,
            mediaId |-> commentData[1].mediaId]>>

\* Variant for sensitivity runs: the messages are taken from the last to the
\* first.
RECURSIVE MessagingLoopReversed(_, _, _)
MessagingLoopReversed(instance, k, items) ==
    IF items = <<>> THEN <<>>
    ELSE MessagingLoopReversed(instance, k, Tail(items))
         \o processDirectMessage(instance, k, Head(items))

\* for (const message of entryItem.messaging) await processDirectMessage(...)
RECURSIVE MessagingLoop(_, _, _)
MessagingLoop(instance, k, items) ==
    IF items = <<>> THEN <<>>
    ELSE processDirectMessage(instance, k, Head(items)) \o MessagingLoop(instance, k, Tail(items))

\* for (const change of entryItem.changes): reading change.field of a null
\* change raises, which ends the loop with the calls made so far.
RECURSIVE ChangesLoop(_, _, _)
ChangesLoop(instance, k, items) ==
    IF items = <<>> THEN [threw |-> FALSE, calls |-> <<>>]
    ELSE IF Head(items).isNull THEN [threw |-> TRUE, calls |-> <<>>]
    ELSE LET first == IF Head(items).field = "comments"
                      THEN processComment(instance, k, Head(items).value)
                      ELSE <<>>
             rest == ChangesLoop(instance, k, Tail(items))
         IN  [threw |-> rest.threw, calls |-> first \o rest.calls]

\* The body of the entry loop after the instance was found: the messaging
\* loop, then the changes loop.  for...of over a value that is not iterable
\* raises a TypeError.
ProcessEntry(instance, k, entryItem) ==
    IF entryItem.messaging.kind = "scalar" THEN [threw |-> TRUE, calls |-> <<>>]
    ELSE LET dms == IF entryItem.messaging.kind = "array"
                    THEN MessagingLoop(instance, k, entryItem.messaging.items)
                    ELSE <<>>
         IN  IF entryItem.changes.kind = "scalar" THEN [threw |-> TRUE, calls |-> dms]
             ELSE IF entryItem.changes.kind = "array"
             THEN LET chg == ChangesLoop(instance, k, entryItem.changes.items)
                  IN  [threw |-> chg.threw, calls |-> dms \o chg.calls]
             ELSE [threw |-> FALSE, calls |-> dms]

(***************************************************************************)
(* Requests.                                                               *)
(***************************************************************************)
\* Values of the x-hub-signature-256 header that a request with the given
\* body may carry: no header, the empty text, the correct signature, the
\* signature of another body, and malformed variants of the correct one.
SignatureSamples(wire) ==
    LET digest == HmacSha256Hex(wire)
        padded == HmacSha256Hex(Wire(wire.valid, wire.doc, (wire.pad + 1) % (MaxPad + 1)))
        other == HmacSha256Hex(Wire(TRUE, NullDoc, MaxPad - wire.pad))
        half == HexDigestLen \div 2
    IN  {None,
         Some(<<>>),
         Some(Sha256Prefix \o digest),
         Some(Sha256Prefix \o padded),
         Some(Sha256Prefix \o other),
         Some(digest),
         Some(Sha256Prefix \o SubSeq(digest, 1, HexDigestLen - 1)),
         Some(Sha256Prefix \o SubSeq(digest, 1, HexDigestLen - 1) \o <<"z">>),
         Some(Sha256Prefix \o SubSeq(digest, 1, HexDigestLen - 2) \o <<EAcute>>),
         Some(<<"x">> \o Sha256Prefix \o digest),
         Some(SubSeq(digest, 1, half) \o Sha256Prefix \o SubSeq(digest, half + 1, HexDigestLen))}

\* values of the query parameters hub.mode, hub.verify_token, hub.challenge
HubModes == {None, Some("subscribe"), Some("unsubscribe")}
HubTokens == {None, Some(""), Some("Tokenclerky28111991"), Some("tokenclerky28111991"),
              Some(" Tokenclerky28111991"), Some("wrong")}
HubChallenges == {None, Some(""), Some("12345")}

(***************************************************************************)
(* middleware/rawBody.ts and the middleware chain of the application       *)
(***************************************************************************)
\* The path of the webhook endpoint, /api/instagram/webhook, as its
\* segments; the raw-body middleware is mounted at the same path.
WebhookPath == <<"api", "instagram", "webhook">>
WebhookMount == <<"api", "instagram", "webhook">>

\* The paths router.post('/webhook', ...) under app.use('/api/instagram', ...)
\* matches: routing is not strict, so the path with a trailing slash (an
\* empty last segment) reaches the handler as well.
PostPaths == {WebhookPath, WebhookPath \o <<"">>}

\* The paths a body is posted to: the path bears on what the signature is
\* checked against, not on the entry loop, so the bodies with more than one
\* entry go to the exact path only.
PostPathSamples(wire) ==
    IF Len(wire.doc.entry.items) > 1 THEN {WebhookPath} ELSE PostPaths

\* app.use(mount, middleware): inside a mounted middleware req.path is the
\* path of the request without the mount point.
PathInside(mount, path) == SubSeq(path, Len(mount) + 1, Len(path))

\* req.path.includes('/webhook')
IncludesWebhook(path) == \E i \in 1..Len(path) : path[i] = "webhook"

\* The request as the chain hands it on: error is what a middleware gave
\* to next(error), as the response the error handler makes of it.
Request(signature, wire, rawBody, body, error) ==
    [kind |-> "webhookPost", signature |-> signature, wire |-> wire,
     rawBody |-> rawBody, body |-> body, failed |-> error # None, error |-> error]

\* rawBodyMiddleware: for a POST whose path (as the middleware sees it)
\* includes /webhook it keeps the bytes received as req.rawBody and parses
\* them into req.body, a parse error going to next(error); every other
\* request passes untouched.
rawBodyMiddleware(method, path, signature, wire) ==
    IF method = "POST" /\ IncludesWebhook(path)
    THEN LET parsed == JsonParse(wire)
         IN  IF parsed.threw
             THEN Request(signature, wire, Some(wire), None,
                          Some(errorHandler(None, None, "Erro ao fazer parse do JSON")))
             ELSE Request(signature, wire, Some(wire), Some(parsed.value), None)
    ELSE Request(signature, wire, None, None, None)

\* Variant for sensitivity runs: a body that does not parse is handed on as
\* the empty object.
expressJsonLenient(path, request) ==
    IF request.failed \/ request.body # None THEN request
    ELSE LET rawBody == IF path = WebhookPath /\ request.rawBody = None
                        THEN Some(request.wire) ELSE request.rawBody
             parsed == JsonParse(request.wire)
         IN  IF parsed.threw \/ parsed.value.isNull
             THEN Request(request.signature, request.wire, rawBody,
                          Some(Envelope(None, Absent)), None)
             ELSE Request(request.signature, request.wire, rawBody, Some(parsed.value), None)

\* express.json({ verify }): for a body that the chain has not read yet,
\* verify keeps the bytes as req.rawBody when the path is the webhook path
\* and no raw body was kept before; then the bytes are parsed, and a text
\* that is not JSON, or is not a JSON object or array, goes to next(error)
\* as a 400.
expressJson(path, request) ==
    IF request.failed \/ request.body # None THEN request
    ELSE LET rawBody == IF path = WebhookPath /\ request.rawBody = None
                        THEN Some(request.wire) ELSE request.rawBody
             parsed == JsonParse(request.wire)
         IN  IF parsed.threw \/ parsed.value.isNull
             THEN Request(request.signature, request.wire, rawBody, None,
                          Some(errorHandler(Some(400), Some(400), "Unexpected token")))
             ELSE Request(request.signature, request.wire, rawBody, Some(parsed.value), None)

\* a POST to a path of the webhook route after the two middlewares
Incoming(path, signature, wire) ==
    expressJson(path, rawBodyMiddleware("POST", PathInside(WebhookMount, path), signature, wire))

(***************************************************************************)
(* controllers/instagramController: the webhook endpoints                  *)
(***************************************************************************)
\* findInstanceByAccountId: InstagramInstance.findOne({ instagramAccountId })
findInstanceByAccountId(store, accountId) ==
    {inst \in store : inst.instagramAccountId = accountId}

\* Variant for sensitivity runs: a lookup that inserts a record for an
\* account it does not find.
StoreAfterFindOneAndUpsert(store, accountId) ==
    IF \E inst \in store : inst.instagramAccountId = accountId THEN store
    ELSE store \cup {[StoredInstance EXCEPT !.id = Cardinality(store) + 1,
                                            !.instagramAccountId = accountId]}

\* The collection after InstagramInstance.findOne: a query writes nothing.
StoreAfterFindOne(store, accountId) == store

\* Variant for sensitivity runs: the TypeError of a null entry escapes the
\* handler, which then sends nothing.
EnterLoopNullEscapes(items, k) ==
    IF k > Len(items) THEN [pc |-> "ready", cursor |-> 0, responses |-> <<StatusOk>>]
    ELSE IF items[k].isNull THEN [pc |-> "ready", cursor |-> 0, responses |-> <<>>]
    ELSE [pc |-> "lookup", cursor |-> k, responses |-> <<>>]

\* Variant for sensitivity runs: the acknowledgement is sent before the
\* first lookup is awaited.
EnterLoopAckFirst(items, k) ==
    IF k > Len(items) THEN [pc |-> "ready", cursor |-> 0,
                            responses |-> IF k = 1 THEN <<StatusOk>> ELSE <<>>]
    ELSE IF items[k].isNull THEN [pc |-> "ready", cursor |-> 0,
                                  responses |-> IF k = 1 THEN <<StatusOk>> ELSE <<>>]
    ELSE [pc |-> "lookup", cursor |-> k, responses |-> IF k = 1 THEN <<StatusOk>> ELSE <<>>]

\* The head of the entry loop for entry k: the loop ends after the last
\* entry, reading entryItem.id of a null entry raises, and otherwise the
\* handler awaits the account lookup.
EnterLoop(items, k) ==
    IF k > Len(items) THEN [pc |-> "ready", cursor |-> 0, responses |-> <<StatusOk>>]
    ELSE IF items[k].isNull THEN [pc |-> "ready", cursor |-> 0, responses |-> <<StatusOk>>]
    ELSE [pc |-> "lookup", cursor |-> k, responses |-> <<>>]

\* Variant for sensitivity runs: only an envelope without object is ignored.
ObjectIgnoredWhenMissing(body) == body.object = None

\* object !== 'instagram'
ObjectIgnored(body) == body.object # Some("instagram")

\* Variant for sensitivity runs: an exception of the signature check is
\* taken for a passed check.
ReceiveStartThrowPasses(request) ==
    LET signature == request.signature
        rawBody == IF request.rawBody # None THEN request.rawBody[1]
                   ELSE JsonStringify(request.body[1])
        check == validateWebhookSignature(rawBody, signature)
        calls == IF SignatureMissing(signature) THEN <<>>
                 ELSE <<[payload |-> rawBody, signature |-> signature, result |-> check]>>
        finish(response) ==
            [pc |-> "ready", cursor |-> 0, responses |-> <<response>>, sigCalls |-> calls]
    IN  IF ~SignatureMissing(signature) /\ ~check.threw /\ ~check.value
        THEN finish(InvalidSignature)
        ELSE IF request.body[1].isNull THEN finish(StatusOk)
        ELSE IF ObjectIgnored(request.body[1]) THEN finish(StatusOk)
        ELSE IF request.body[1].entry.kind = "scalar" THEN finish(StatusOk)
        ELSE LET loop == EnterLoop(request.body[1].entry.items, 1)
             IN  [pc |-> loop.pc, cursor |-> loop.cursor, responses |-> loop.responses,
                  sigCalls |-> calls]

\* receiveWebhook from its first line to its first await or its response.
ReceiveStart(request) ==
    LET signature == request.signature
        rawBody == IF request.rawBody # None THEN request.rawBody[1]
                   ELSE JsonStringify(request.body[1])
        check == validateWebhookSignature(rawBody, signature)
        calls == IF SignatureMissing(signature) THEN <<>>
                 ELSE <<[payload |-> rawBody, signature |-> signature, result |-> check]>>
        finish(response) ==
            [pc |-> "ready", cursor |-> 0, responses |-> <<response>>, sigCalls |-> calls]
    IN  IF ~SignatureMissing(signature) /\ check.threw THEN finish(StatusOk)
        ELSE IF ~SignatureMissing(signature) /\ ~check.value THEN finish(InvalidSignature)
        ELSE IF request.body[1].isNull THEN finish(StatusOk)
        ELSE IF ObjectIgnored(request.body[1]) THEN finish(StatusOk)
        ELSE IF request.body[1].entry.kind = "scalar" THEN finish(StatusOk)
        ELSE LET loop == EnterLoop(request.body[1].entry.items, 1)
             IN  [pc |-> loop.pc, cursor |-> loop.cursor, responses |-> loop.responses,
                  sigCalls |-> calls]

\* POST /api/instagram/webhook
receiveWebhook(path, signature, wire) ==
    /\ LET request == Incoming(path, signature, wire)
       IN  /\ req' = request
           /\ lookups' = <<>>
           /\ handled' = <<>>
           /\ oauth' = oauth
           /\ IF request.failed
              THEN /\ responses' = <<request.error[1]>>
                   /\ sigCalls' = <<>>
                   /\ pc' = "ready"
                   /\ cursor' = 0
              ELSE LET start == ReceiveStart(request)
                   IN  /\ responses' = start.responses
                       /\ sigCalls' = start.sigCalls
                       /\ pc' = start.pc
                       /\ cursor' = start.cursor
    /\ UNCHANGED <<config, instances, peer, outbound>>

\* The awaited findInstanceByAccountId of entry cursor settles: the store
\* rejects, or answers with an instance or null; then the handler runs to
\* the lookup of the next entry or to its response.
LookupSettles(rejected) ==
    /\ pc = "lookup"
    /\ LET items == req.body[1].entry.items
           entryItem == items[cursor]
           found == findInstanceByAccountId(instances, entryItem.id)
           finish(calls) ==
               /\ handled' = handled \o calls
               /\ responses' = responses \o <<StatusOk>>
               /\ pc' = "ready"
               /\ cursor' = 0
           continue(calls) ==
               LET loop == EnterLoop(items, cursor + 1)
               IN  /\ handled' = handled \o calls
                   /\ responses' = responses \o loop.responses
                   /\ pc' = loop.pc
                   /\ cursor' = loop.cursor
       IN  IF rejected
           THEN /\ lookups' = Append(lookups, [entry |-> cursor, accountId |-> entryItem.id,
                                               result |-> "rejected"])
                /\ finish(<<>>)
           ELSE IF found = {}
           THEN /\ lookups' = Append(lookups, [entry |-> cursor, accountId |-> entryItem.id,
                                               result |-> "null"])
                /\ continue(<<>>)
           ELSE \E instance \in found :
                   LET done == ProcessEntry(instance, cursor, entryItem)
                   IN  /\ lookups' = Append(lookups, [entry |-> cursor, accountId |-> entryItem.id,
                                                      result |-> "found"])
                       /\ IF done.threw THEN finish(done.calls) ELSE continue(done.calls)
    /\ instances' = StoreAfterFindOne(instances, req.body[1].entry.items[cursor].id)
    /\ UNCHANGED <<config, req, sigCalls, oauth, peer, outbound>>

\* GET /api/instagram/webhook
VerifyResponse(verifyToken, mode, token, challenge) ==
    LET verifiedChallenge == verifyWebhookToken(verifyToken, mode, token, challenge)
    IN  IF ChallengeTruthy(verifiedChallenge)
        THEN Text(200, "text/plain", verifiedChallenge.value[1])
        ELSE Forbidden

verifyWebhook(mode, token, challenge) ==
    /\ req' = [kind |-> "webhookGet", mode |-> mode, token |-> token, challenge |-> challenge,
               verifiedChallenge |-> verifyWebhookToken(config.verifyToken, mode, token, challenge)]
    /\ responses' = <<VerifyResponse(config.verifyToken, mode, token, challenge)>>
    /\ sigCalls' = <<>>
    /\ lookups' = <<>>
    /\ handled' = <<>>
    /\ UNCHANGED <<config, instances, pc, cursor, oauth, peer, outbound>>

\* The response has been sent and the handler has returned: the server
\* turns to the next request, and the record of this one is dropped.
RequestEnds ==
    /\ pc = "ready" /\ req.kind # "none"
    /\ req' = NoRequest
    /\ responses' = <<>>
    /\ sigCalls' = <<>>
    /\ lookups' = <<>>
    /\ handled' = <<>>
    /\ oauth' = NoLocals
    /\ outbound' = <<>>
    /\ UNCHANGED <<config, instances, pc, cursor, peer>>

(***************************************************************************)
(* Specification of the webhook endpoints.                                 *)
(***************************************************************************)
Init ==
    /\ config \in [nodeEnv : NodeEnvs, verifyToken : VerifyTokens]
    /\ instances = {StoredInstance}
    /\ req = NoRequest
    /\ pc = "ready"
    /\ cursor = 0
    /\ responses = <<>>
    /\ sigCalls = <<>>
    /\ lookups = <<>>
    /\ handled = <<>>
    /\ oauth = NoLocals
    /\ peer = NoPeer
    /\ outbound = <<>>

\* The server takes up a request when it is not handling one.
Idle == pc = "ready" /\ req.kind = "none"

PostArrives ==
    /\ Idle
    /\ \E wire \in Wires : \E path \in PostPathSamples(wire) :
          \E signature \in SignatureSamples(wire) : receiveWebhook(path, signature, wire)
LookupAnswers == LookupSettles(FALSE)
LookupRejects == LookupSettles(TRUE)
GetArrives ==
    /\ Idle
    /\ \E mode \in HubModes, token \in HubTokens, challenge \in HubChallenges :
           verifyWebhook(mode, token, challenge)

Next == PostArrives \/ LookupAnswers \/ LookupRejects \/ GetArrives \/ RequestEnds

Spec == Init /\ [][Next]_vars

(***************************************************************************)
(* controllers/instagramController: the OAuth callback                     *)
(***************************************************************************)
\* an Instagram account that has no instance in the store at the start
NewAccount == "24680"

\* res.redirect(FRONTEND_URL + '/gerenciador-conexoes?' + query)
Redirect(query) == [status |-> 302, type |-> "redirect", body |-> query]

\* The authorization code as the query carries it: a text of characters.
CodeSamples == {None, Some(<<>>), Some(<<"A", "Q", "B">>), Some(<<"A", "Q", "B", "#", "_">>)}

\* if (cleanCode.endsWith('#_')) cleanCode = cleanCode.replace(/#_$/, '')
CleanCode(code) ==
    IF Len(code) >= 2 /\ SubSeq(code, Len(code) - 1, Len(code)) = <<"#", "_">>
    THEN SubSeq(code, 1, Len(code) - 2)
    ELSE code

\* The state parameter: an empty text, a text decodeURIComponent rejects, a
\* text JSON.parse rejects, the text null, or the text of an object with
\* the properties userId and instanceName, each of which may be missing.
StateText(kind, userId, instanceName) ==
    [kind |-> kind, userId |-> userId, instanceName |-> instanceName]
StateSamples ==
    {None,
     Some(StateText("empty", None, None)),
     Some(StateText("badUri", None, None)),
     Some(StateText("badJson", None, None)),
     Some(StateText("null", None, None)),
     Some(StateText("object", Some("user1"), Some("Loja"))),
     Some(StateText("object", Some("user2"), None)),
     Some(StateText("object", Some("user1"), Some("ab"))),
     Some(StateText("object", None, Some("Loja")))}
ErrorSamples == {None, Some("access_denied")}

\* JSON.parse(decodeURIComponent(state))
DecodeState(state) ==
    [threw |-> state.kind \in {"badUri", "badJson"},
     isNull |-> state.kind = "null",
     userId |-> state.userId, instanceName |-> state.instanceName]

\* Variant for sensitivity runs: the three parameters are taken for a probe
\* whatever hub.mode says.
CallbackProbeAnyMode(mode, token, challenge) == Truthy(challenge) /\ Truthy(token)

\* hubMode === 'subscribe' && hubChallenge && hubVerifyToken
CallbackProbe(mode, token, challenge) ==
    mode = Some("subscribe") /\ Truthy(challenge) /\ Truthy(token)

\* oauthCallback from its first line to its first await or its response
CallbackStart(verifyToken, query) ==
    LET finish(response) == [pc |-> "ready", responses |-> <<response>>, oauth |-> NoLocals]
    IN  IF CallbackProbe(query.mode, query.token, query.challenge)
        THEN LET verifiedChallenge ==
                     verifyWebhookToken(verifyToken, query.mode, query.token, query.challenge)
             IN  IF ChallengeTruthy(verifiedChallenge)
                 THEN finish(Text(200, "text/plain", verifiedChallenge.value[1]))
                 ELSE finish(Forbidden)
        ELSE IF Truthy(query.error) THEN finish(Redirect("error=oauth_failed"))
        ELSE IF query.code = None \/ query.code[1] = <<>>
                \/ query.state = None \/ query.state[1].kind = "empty"
        THEN finish(Redirect("error=invalid_callback"))
        ELSE LET stateData == DecodeState(query.state[1])
             IN  IF stateData.threw THEN finish(Redirect("error=invalid_state"))
                 ELSE IF stateData.isNull THEN finish(Redirect("error=connection_failed"))
                 ELSE [pc |-> "exchangeCode", responses |-> <<>>,
                       oauth |-> [NoLocals EXCEPT !.userId = stateData.userId,
                                                  !.instanceName = stateData.instanceName,
                                                  !.cleanCode = CleanCode(query.code[1])]]

\* GET /api/instagram/auth/callback
oauthCallback(query) ==
    LET start == CallbackStart(config.verifyToken, query)
    IN  /\ req' = [kind |-> "oauthCallback", mode |-> query.mode, token |-> query.token,
                   challenge |-> query.challenge, code |-> query.code, state |-> query.state,
                   error |-> query.error]
        /\ pc' = start.pc
        /\ responses' = start.responses
        /\ oauth' = start.oauth
        /\ UNCHANGED <<config, instances, cursor, sigCalls, lookups, handled, outbound>>

\* Variant for sensitivity runs: the catch hands the error to the error
\* middleware.
ConnectionFailedToErrorHandler ==
    /\ pc' = "ready"
    /\ responses' = responses \o <<errorHandler(None, None, "Erro ao processar callback")>>

\* the catch of oauthCallback
ConnectionFailed ==
    /\ pc' = "ready"
    /\ responses' = responses \o <<Redirect("error=connection_failed")>>

\* res.redirect(... ?success=instagram_connected&instanceId=${instance._id})
Connected(id) ==
    /\ pc' = "ready"
    /\ responses' = responses
           \o <<Redirect("success=instagram_connected&instanceId=" \o ToString(id))>>

\* What exchangeCodeForToken resolves to: the token data of the provider's
\* answer, in which user_id may be missing.
ShortLivedTokens ==
    {[access_token |-> "IGQ-short", token_type |-> "bearer", expires_in |-> Some(3600),
      user_id |-> u] : u \in {None, Some(KnownAccount), Some(NewAccount)}}

\* getInstagramUserInfo when the user id came with the token: no API call
UserInfoOfId(userId) == [id |-> userId, username |-> None]

\* The awaited exchangeCodeForToken settles: it throws, or resolves.
ExchangeCodeSettles ==
    /\ pc = "exchangeCode"
    /\ \/ /\ ConnectionFailed
          /\ UNCHANGED oauth
       \/ \E tokenData \in ShortLivedTokens :
             /\ oauth' = [oauth EXCEPT !.shortLivedTokenData = Some(tokenData)]
             /\ pc' = "longLived"
             /\ UNCHANGED responses
    /\ UNCHANGED <<config, instances, req, cursor, sigCalls, lookups, handled, peer, outbound>>

\* Variant for sensitivity runs: the fallback gives the short-lived token the
\* lifetime of a long-lived one.
exchangeFallbackKeepsLongLifetime(shortLivedToken) ==
    {[access_token |-> "IGQ-long", token_type |-> "bearer", expires_in |-> Some(5184000)],
     [access_token |-> "IGQ-long", token_type |-> "bearer", expires_in |-> None],
     [access_token |-> shortLivedToken, token_type |-> "bearer", expires_in |-> Some(5184000)]}

\* What exchangeShortLivedForLongLivedToken resolves to: the long-lived token
\* of the provider's answer, in which expires_in may be missing, or the
\* short-lived token as fallback when the exchange fails.
exchangeShortLivedForLongLivedToken(shortLivedToken) ==
    {[access_token |-> "IGQ-long", token_type |-> "bearer", expires_in |-> Some(5184000)],
     [access_token |-> "IGQ-long", token_type |-> "bearer", expires_in |-> None],
     [access_token |-> shortLivedToken, token_type |-> "bearer", expires_in |-> Some(3600)]}

\* longLivedTokenData.expires_in || 3600
ExpiresIn(tokenData) == IF tokenData.expires_in = None THEN 3600 ELSE tokenData.expires_in[1]

\* The awaited exchangeShortLivedForLongLivedToken settles; then
\* getInstagramUserInfo answers at once when the user id is known, and
\* otherwise asks the provider.
LongLivedSettles ==
    /\ pc = "longLived"
    /\ \E tokenData \in exchangeShortLivedForLongLivedToken(oauth.shortLivedTokenData[1].access_token) :
          LET userId == oauth.shortLivedTokenData[1].user_id
          IN  IF Truthy(userId)
              THEN /\ oauth' = [oauth EXCEPT !.longLivedTokenData = Some(tokenData),
                                             !.userInfo = Some(UserInfoOfId(userId[1]))]
                   /\ pc' = "find"
              ELSE /\ oauth' = [oauth EXCEPT !.longLivedTokenData = Some(tokenData)]
                   /\ pc' = "userInfo"
    /\ UNCHANGED <<config, instances, req, cursor, responses, sigCalls, lookups, handled, peer, outbound>>

\* The provider's answer to GET /me settles: both requests fail and
\* getInstagramUserInfo throws, or one answers with id and username.
UserInfoSettles ==
    /\ pc = "userInfo"
    /\ \/ /\ ConnectionFailed
          /\ UNCHANGED oauth
       \/ \E id \in {KnownAccount, NewAccount} :
             /\ oauth' = [oauth EXCEPT !.userInfo = Some([id |-> id, username |-> Some("guipratiko")])]
             /\ pc' = "find"
             /\ UNCHANGED responses
    /\ UNCHANGED <<config, instances, req, cursor, sigCalls, lookups, handled, peer, outbound>>

\* The fields oauthCallback assigns to an instance it found (lines 224-229).
UpdatedInstance(instance, tokenData, userInfo) ==
    [instance EXCEPT !.accessToken = tokenData.access_token,
                     !.tokenType = tokenData.token_type,
                     !.expiresIn = ExpiresIn(tokenData),
                     !.isLongLived = ExpiresIn(tokenData) > 3600,
                     !.username = userInfo.username,
                     !.status = "connected"]

\* The awaited findInstanceByAccountId(userInfo.id) settles: the store
\* rejects, or answers with an instance, which is then updated in memory,
\* or with null.
FindSettles ==
    /\ pc = "find"
    /\ \/ /\ ConnectionFailed
          /\ UNCHANGED oauth
       \/ LET found == findInstanceByAccountId(instances, oauth.userInfo[1].id)
          IN  IF found = {}
              THEN /\ pc' = "create"
                   /\ UNCHANGED <<oauth, responses>>
              ELSE \E instance \in found :
                      /\ oauth' = [oauth EXCEPT !.instance =
                                      Some(UpdatedInstance(instance, oauth.longLivedTokenData[1],
                                                           oauth.userInfo[1]))]
                      /\ pc' = "save"
                      /\ UNCHANGED responses
    /\ UNCHANGED <<config, instances, req, cursor, sigCalls, lookups, handled, peer, outbound>>

\* The awaited instance.save() of the updated instance settles.
SaveSettles ==
    /\ pc = "save"
    /\ \/ /\ ConnectionFailed
          /\ UNCHANGED instances
       \/ LET instance == oauth.instance[1]
          IN  /\ instances' = {i \in instances : i.id # instance.id} \cup {instance}
              /\ Connected(instance.id)
    /\ UNCHANGED <<config, req, cursor, sigCalls, lookups, handled, oauth, peer, outbound>>

\* the least length the schema of the instance accepts for a name
NameMinLength == 3

\* createInstance: the document that is saved, or none when the validation
\* of the schema rejects it (the user id is required, the name has a least
\* length).
createInstance(store, userId, instanceName, userInfo, tokenData) ==
    LET name == IF Truthy(instanceName) THEN instanceName[1]
                ELSE IF Truthy(userInfo.username) THEN userInfo.username[1]
                ELSE "Instagram"
        id == Cardinality(store) + 1
    IN  IF ~Truthy(userId) \/ Len(name) < NameMinLength THEN None
        ELSE Some([id |-> id, name |-> name, userId |-> userId[1],
                   token |-> "tok" \o ToString(id),
                   instagramAccountId |-> userInfo.id, username |-> userInfo.username,
                   accessToken |-> tokenData.access_token,
                   tokenType |-> tokenData.token_type,
                   expiresIn |-> ExpiresIn(tokenData),
                   isLongLived |-> ExpiresIn(tokenData) > 3600,
                   status |-> "connected"])

\* The awaited createInstance settles: the save is rejected (by the
\* validation or by the store), or the new instance is stored.
CreateSettles ==
    /\ pc = "create"
    /\ LET created == createInstance(instances, oauth.userId, oauth.instanceName,
                                     oauth.userInfo[1], oauth.longLivedTokenData[1])
       IN  \/ /\ ConnectionFailed
              /\ UNCHANGED <<instances, oauth>>
           \/ /\ created # None
              /\ instances' = instances \cup {created[1]}
              /\ oauth' = [oauth EXCEPT !.instance = created]
              /\ pc' = "subscribe"
              /\ UNCHANGED responses
    /\ UNCHANGED <<config, req, cursor, sigCalls, lookups, handled, peer, outbound>>

\* Variant for sensitivity runs: a subscription that fails removes the
\* instance and fails the connect.
SubscribeSettlesFailureUndoes ==
    /\ pc = "subscribe"
    /\ \E subscribed \in BOOLEAN :
          /\ oauth' = [oauth EXCEPT !.subscribed = Some(subscribed)]
          /\ IF subscribed
             THEN Connected(oauth.instance[1].id) /\ UNCHANGED instances
             ELSE ConnectionFailed /\ instances' = instances \ {oauth.instance[1]}
    /\ UNCHANGED <<config, req, cursor, sigCalls, lookups, handled, peer, outbound>>

\* The awaited subscribeToWebhook settles, with true or with false (it
\* catches what its requests throw); the value it resolved to is kept as
\* subscribed, the handler does not read it, and neither changes what
\* follows.
SubscribeSettles ==
    /\ pc = "subscribe"
    /\ \E subscribed \in BOOLEAN :
          /\ oauth' = [oauth EXCEPT !.subscribed = Some(subscribed)]
          /\ Connected(oauth.instance[1].id)
    /\ UNCHANGED <<config, instances, req, cursor, sigCalls, lookups, handled, peer, outbound>>

(***************************************************************************)
(* Specification of the OAuth callback endpoint.                           *)
(***************************************************************************)
\* The queries of the callbacks: every combination of the three hub
\* parameters, alone and together with the code and the state of a
\* completed authorization, and every combination of code, state and error
\* without hub parameters.
Query(mode, token, challenge, code, state, error) ==
    [mode |-> mode, token |-> token, challenge |-> challenge,
     code |-> code, state |-> state, error |-> error]
QuerySamples ==
    {Query(mode, token, challenge, None, None, None) :
        mode \in HubModes, token \in HubTokens, challenge \in HubChallenges}
    \cup {Query(mode, token, challenge, Some(<<"A", "Q", "B">>),
                Some(StateText("object", Some("user1"), Some("Loja"))), None) :
             mode \in HubModes, token \in HubTokens, challenge \in HubChallenges}
    \cup {Query(None, None, None, code, state, error) :
             code \in CodeSamples, state \in StateSamples, error \in ErrorSamples}

InitOAuth ==
    /\ config \in [nodeEnv : {"development"}, verifyToken : VerifyTokens]
    /\ instances = {StoredInstance}
    /\ req = NoRequest
    /\ pc = "ready"
    /\ cursor = 0
    /\ responses = <<>>
    /\ sigCalls = <<>>
    /\ lookups = <<>>
    /\ handled = <<>>
    /\ oauth = NoLocals
    /\ peer = NoPeer
    /\ outbound = <<>>

CallbackArrives ==
    /\ Idle
    /\ \E query \in QuerySamples : oauthCallback(query)
    /\ UNCHANGED peer

NextOAuth ==
    \/ CallbackArrives
    \/ ExchangeCodeSettles
    \/ LongLivedSettles
    \/ UserInfoSettles
    \/ FindSettles
    \/ SaveSettles
    \/ CreateSettles
    \/ SubscribeSettles
    \/ RequestEnds

SpecOAuth == InitOAuth /\ [][NextOAuth]_vars

(***************************************************************************)
(* Specification of OAuth callbacks in flight together.  The handler is    *)
(* async: while one callback is suspended at an await, the event loop may  *)
(* start another callback or resume a suspended one.                       *)
(***************************************************************************)
\* the number of callbacks that arrive
MaxCallbacks == 2

\* Authorizations completed by two users; the provider answers either with
\* the account KnownAccount or NewAccount (ShortLivedTokens, UserInfoSettles).
ConcurrentQueries ==
    {Query(None, None, None, Some(<<"A", "Q", "B">>),
           Some(StateText("object", Some("user1"), Some("Loja"))), None),
     Query(None, None, None, Some(<<"A", "Q", "B">>),
           Some(StateText("object", Some("user2"), None)), None)}

InitConcurrent ==
    /\ config = [nodeEnv |-> "development", verifyToken |-> "Tokenclerky28111991"]
    /\ instances = {StoredInstance}
    /\ req = NoRequest
    /\ pc = "ready"
    /\ cursor = 0
    /\ responses = <<>>
    /\ sigCalls = <<>>
    /\ lookups = <<>>
    /\ handled = <<>>
    /\ oauth = NoLocals
    /\ peer = NoPeer
    /\ outbound = <<>>

\* A callback arrives while no callback runs in this turn of the event
\* loop; another one may be suspended at an await.
ConcurrentCallbackArrives ==
    /\ peer.started < MaxCallbacks
    /\ Idle
    /\ \E query \in ConcurrentQueries : oauthCallback(query)
    /\ peer' = [peer EXCEPT !.started = @ + 1]

\* The event loop leaves the callback it was running at its await (or at
\* its end) and turns to the other one: the two exchange their places, the
\* store is shared.
Switch ==
    /\ peer' = [req |-> req, pc |-> pc, responses |-> responses, oauth |-> oauth,
                started |-> peer.started]
    /\ req' = peer.req
    /\ pc' = peer.pc
    /\ responses' = peer.responses
    /\ oauth' = peer.oauth
    /\ UNCHANGED <<config, instances, cursor, sigCalls, lookups, handled, outbound>>

NextConcurrent ==
    \/ ConcurrentCallbackArrives
    \/ Switch
    \/ ExchangeCodeSettles
    \/ LongLivedSettles
    \/ UserInfoSettles
    \/ FindSettles
    \/ SaveSettles
    \/ CreateSettles
    \/ SubscribeSettles
    \/ RequestEnds

SpecConcurrent == InitConcurrent /\ [][NextConcurrent]_vars

(***************************************************************************)
(* Specification of validateWebhookSignature as a function: a caller       *)
(* passes a payload and the value of the signature header, absent and      *)
(* empty included, and the function returns or throws.                     *)
(***************************************************************************)
InitValidator ==
    /\ config = [nodeEnv |-> "development", verifyToken |-> "Tokenclerky28111991"]
    /\ instances = {StoredInstance}
    /\ \E payload \in Wires : \E signature \in SignatureSamples(payload) :
          req = [kind |-> "validate", payload |-> payload, signature |-> signature]
    /\ pc = "ready"
    /\ cursor = 0
    /\ responses = <<>>
    /\ sigCalls = <<>>
    /\ lookups = <<>>
    /\ handled = <<>>
    /\ oauth = NoLocals
    /\ peer = NoPeer
    /\ outbound = <<>>

ValidatorCalled ==
    /\ req.kind = "validate"
    /\ sigCalls = <<>>
    /\ sigCalls' = <<[payload |-> req.payload, signature |-> req.signature,
                      result |-> validateWebhookSignature(req.payload, req.signature)]>>
    /\ UNCHANGED <<config, instances, req, pc, cursor, responses, lookups, handled, oauth, peer, outbound>>

NextValidator == ValidatorCalled

SpecValidator == InitValidator /\ [][NextValidator]_vars

(***************************************************************************)
(* controllers/instagramController: the endpoints of the instances and of  *)
(* the outbound messages.                                                  *)
(***************************************************************************)
\* next(createValidationError(message)), as the error middleware answers it
ValidationError(message) == errorHandler(Some(400), Some("validation_error"), message)

\* next(handleControllerError(error, ...)) for an Error without status code
ControllerError(message) == errorHandler(Some(500), Some("error"), message)

\* res.json({ status: 'success', ... }); data is what the answer carries
\* besides: the views of instances, or nothing
Success(data) == [status |-> 200, type |-> "json", body |-> "{status:'success'}", data |-> data]

\* a second instance, of another account of the same user
SecondInstance ==
    [id |-> 2, name |-> "Loja", userId |-> "user1", token |-> "tok2",
     instagramAccountId |-> NewAccount, username |-> Some("guipratiko"),
     accessToken |-> "IGQ-short", tokenType |-> "bearer", expiresIn |-> 3600,
     isLongLived |-> FALSE, status |-> "connected"]

\* the stores the requests of these endpoints meet
ApiStores == {{}, {StoredInstance}, {StoredInstance, SecondInstance}}

\* The text of an instance id is well formed when the store can cast it to
\* an id (here: the decimal text of an id); findById rejects every other text
\* with a CastError.
WellFormedId(id) == \E n \in 1..3 : id = ToString(n)

\* findInstanceById: InstagramInstance.findById(id)
findInstanceById(store, id) == {inst \in store : ToString(inst.id) = id}

\* InstagramInstance.find({ userId }).sort({ createdAt: -1 }): the newest
\* first; the ids of the model grow with the time of creation
RECURSIVE NewestFirst(_)
NewestFirst(found) ==
    IF found = {} THEN <<>>
    ELSE LET newest == CHOOSE i \in found : \A j \in found : j.id <= i.id
         IN  <<newest>> \o NewestFirst(found \ {newest})

findInstancesByUserId(store, userId) == NewestFirst({inst \in store : inst.userId = userId})

\* Variant for sensitivity runs: the view of an instance carries its tokens.
InstanceViewWithTokens(inst) ==
    [id |-> inst.id, name |-> inst.name, username |-> inst.username, status |-> inst.status,
     token |-> inst.token, accessToken |-> inst.accessToken]

\* What listInstances and getInstance answer of an instance: of the fields
\* of the model id, name, username and status.
InstanceView(inst) ==
    [id |-> inst.id, name |-> inst.name, username |-> inst.username, status |-> inst.status]

\* the request of one of these endpoints: the route parameter id, the
\* properties of the body, the query parameter userId
ApiRequest(kind, id, instanceId, recipientId, message, userId) ==
    [kind |-> kind, id |-> id, instanceId |-> instanceId, recipientId |-> recipientId,
     message |-> message, userId |-> userId]

InstanceIdSamples == {None, Some(""), Some("1"), Some("2"), Some("3"), Some("xxx")}
RecipientIdSamples == {None, Some(""), Some("909062018212935")}
MessageTextSamples == {None, Some(""), Some("Hello World!")}
CommentIdSamples == {"c1"}
UserIdSamples == {None, Some(""), Some("user1"), Some("user2")}

\* sendMessage from its first line to its first await or to next(error)
SendMessageStart(instanceId, recipientId, message) ==
    IF ~Truthy(instanceId) \/ ~Truthy(recipientId) \/ ~Truthy(message)
    THEN [pc |-> "ready",
          responses |-> <<ValidationError("instanceId, recipientId e message sao obrigatorios")>>]
    ELSE [pc |-> "findById", responses |-> <<>>]

\* POST /api/instagram/messages
sendMessage(instanceId, recipientId, message) ==
    LET start == SendMessageStart(instanceId, recipientId, message)
    IN  /\ req' = ApiRequest("sendMessage", None, instanceId, recipientId, message, None)
        /\ pc' = start.pc
        /\ responses' = start.responses
        /\ outbound' = <<>>
        /\ UNCHANGED <<config, instances, cursor, sigCalls, lookups, handled, oauth, peer>>

\* replyComment from its first line to its first await or to next(error)
ReplyCommentStart(instanceId, message) ==
    IF ~Truthy(instanceId) \/ ~Truthy(message)
    THEN [pc |-> "ready", responses |-> <<ValidationError("instanceId e message sao obrigatorios")>>]
    ELSE [pc |-> "findById", responses |-> <<>>]

\* POST /api/instagram/comments/:id/replies
replyComment(commentId, instanceId, message) ==
    LET start == ReplyCommentStart(instanceId, message)
    IN  /\ req' = ApiRequest("replyComment", Some(commentId), instanceId, None, message, None)
        /\ pc' = start.pc
        /\ responses' = start.responses
        /\ outbound' = <<>>
        /\ UNCHANGED <<config, instances, cursor, sigCalls, lookups, handled, oauth, peer>>

\* GET /api/instagram/instances/:id
getInstance(id) ==
    /\ req' = ApiRequest("getInstance", Some(id), None, None, None, None)
    /\ pc' = "findById"
    /\ responses' = <<>>
    /\ outbound' = <<>>
    /\ UNCHANGED <<config, instances, cursor, sigCalls, lookups, handled, oauth, peer>>

\* GET /api/instagram/instances?userId=...
listInstances(userId) ==
    /\ req' = ApiRequest("listInstances", None, None, None, None, userId)
    /\ IF ~Truthy(userId)
       THEN /\ pc' = "ready"
            /\ responses' = <<ValidationError("userId e obrigatorio")>>
       ELSE /\ pc' = "findByUser"
            /\ responses' = <<>>
    /\ outbound' = <<>>
    /\ UNCHANGED <<config, instances, cursor, sigCalls, lookups, handled, oauth, peer>>

\* sendDirectMessage and replyToComment: the POST they send to the platform
DirectMessagePost(instance, recipientId, message) ==
    [call |-> "sendDirectMessage", target |-> instance.instagramAccountId,
     recipientId |-> Some(recipientId), message |-> message, bearer |-> instance.accessToken]
CommentReplyPost(instance, commentId, message) ==
    [call |-> "replyToComment", target |-> commentId,
     recipientId |-> None, message |-> message, bearer |-> instance.accessToken]

\* The awaited findInstanceById settles: the store rejects (it always does
\* for a text it cannot cast to an id), or answers null or an instance; then
\* getInstance answers, and sendMessage and replyComment send their POST to
\* the platform and await its answer.
FindByIdSettles(rejected) ==
    /\ pc = "findById"
    /\ LET id == IF req.kind = "getInstance" THEN req.id[1] ELSE req.instanceId[1]
           found == findInstanceById(instances, id)
       IN  /\ ~WellFormedId(id) => rejected
           /\ IF rejected
              THEN /\ responses' = <<ControllerError(IF WellFormedId(id)
                                                     THEN "store error"
                                                     ELSE "Cast to ObjectId failed")>>
                   /\ pc' = "ready"
                   /\ UNCHANGED outbound
              ELSE IF found = {}
              THEN /\ responses' = <<ValidationError("Instancia nao encontrada")>>
                   /\ pc' = "ready"
                   /\ UNCHANGED outbound
              ELSE \E instance \in found :
                      CASE req.kind = "getInstance" ->
                              /\ responses' = <<Success(<<InstanceView(instance)>>)>>
                              /\ pc' = "ready"
                              /\ UNCHANGED outbound
                        [] req.kind = "sendMessage" ->
                              /\ outbound' = <<DirectMessagePost(instance, req.recipientId[1],
                                                                 req.message[1])>>
                              /\ pc' = "platform"
                              /\ UNCHANGED responses
                        [] OTHER ->
                              /\ outbound' = <<CommentReplyPost(instance, req.id[1], req.message[1])>>
                              /\ pc' = "platform"
                              /\ UNCHANGED responses
    /\ UNCHANGED <<config, instances, req, cursor, sigCalls, lookups, handled, oauth, peer>>

\* The awaited POST to the platform settles: it is answered, or it fails and
\* sendDirectMessage or replyToComment throws.
PlatformSettles(failed) ==
    /\ pc = "platform"
    /\ responses' = IF failed THEN <<ControllerError("Erro ao enviar")>> ELSE <<Success(<<>>)>>
    /\ pc' = "ready"
    /\ UNCHANGED <<config, instances, req, cursor, sigCalls, lookups, handled, oauth, peer, outbound>>

\* what listInstances answers once findInstancesByUserId has resolved
ListResponse(store, userId) ==
    LET found == findInstancesByUserId(store, userId)
    IN  Success([i \in 1..Len(found) |-> InstanceView(found[i])])

\* The awaited findInstancesByUserId settles.
FindByUserSettles(rejected) ==
    /\ pc = "findByUser"
    /\ responses' = IF rejected THEN <<ControllerError("Erro ao listar instancias")>>
                    ELSE <<ListResponse(instances, req.userId[1])>>
    /\ pc' = "ready"
    /\ UNCHANGED <<config, instances, req, cursor, sigCalls, lookups, handled, oauth, peer, outbound>>

(***************************************************************************)
(* Specification of these endpoints.                                       *)
(***************************************************************************)
InitApi ==
    /\ config = [nodeEnv |-> "development", verifyToken |-> "Tokenclerky28111991"]
    /\ instances \in ApiStores
    /\ req = NoRequest
    /\ pc = "ready"
    /\ cursor = 0
    /\ responses = <<>>
    /\ sigCalls = <<>>
    /\ lookups = <<>>
    /\ handled = <<>>
    /\ oauth = NoLocals
    /\ peer = NoPeer
    /\ outbound = <<>>

SendMessageArrives ==
    /\ Idle
    /\ \E instanceId \in InstanceIdSamples, recipientId \in RecipientIdSamples,
          message \in MessageTextSamples : sendMessage(instanceId, recipientId, message)
ReplyCommentArrives ==
    /\ Idle
    /\ \E commentId \in CommentIdSamples, instanceId \in InstanceIdSamples,
          message \in MessageTextSamples : replyComment(commentId, instanceId, message)
GetInstanceArrives ==
    /\ Idle
    /\ \E id \in {i[1] : i \in InstanceIdSamples \ {None, Some("")}} : getInstance(id)
ListInstancesArrives ==
    /\ Idle
    /\ \E userId \in UserIdSamples : listInstances(userId)
FindByIdAnswers == FindByIdSettles(FALSE)
FindByIdRejects == FindByIdSettles(TRUE)
PlatformAnswers == PlatformSettles(FALSE)
PlatformFails == PlatformSettles(TRUE)
FindByUserAnswers == FindByUserSettles(FALSE)
FindByUserRejects == FindByUserSettles(TRUE)

NextApi ==
    \/ SendMessageArrives
    \/ ReplyCommentArrives
    \/ GetInstanceArrives
    \/ ListInstancesArrives
    \/ FindByIdAnswers
    \/ FindByIdRejects
    \/ PlatformAnswers
    \/ PlatformFails
    \/ FindByUserAnswers
    \/ FindByUserRejects
    \/ RequestEnds

SpecApi == InitApi /\ [][NextApi]_vars

(***************************************************************************)
(* Properties.                                                             *)
(***************************************************************************)
\* the header value the provider computes for a body: "sha256=" + hex(HMAC)
SignatureOf(wire) == Some(Sha256Prefix \o HmacSha256Hex(wire))

\* a webhook POST whose body the middleware chain parsed, so that
\* receiveWebhook ran
PostHandled == req.kind = "webhookPost" /\ ~req.failed
\* ... and whose handler has returned
PostDone == PostHandled /\ pc = "ready"

\* the signature header of the request is absent, or the handler's call of
\* validateWebhookSignature returned true
SignatureAccepted ==
    \/ req.signature = None
    \/ /\ sigCalls # <<>>
       /\ ~sigCalls[1].result.threw
       /\ sigCalls[1].result.value

C2_BadSignatureAnswered403 ==
    (PostDone /\ ~SignatureMissing(req.signature) /\ req.signature # SignatureOf(req.wire))
        => responses = <<InvalidSignature>>

\* C3: validateWebhookSignature(B, "sha256=" + hex(HMAC(B0))) is true when
\* B = B0 and false for every other payload B.
C3_SignatureVerifiesOwnPayloadOnly ==
    \A c \in 1..Len(sigCalls) :
        \A signed \in {Wire(TRUE, NullDoc, p) : p \in 0..MaxPad}
                      \cup {Wire(sigCalls[c].payload.valid, sigCalls[c].payload.doc, p) : p \in 0..MaxPad} :
            sigCalls[c].signature = SignatureOf(signed)
                => /\ ~sigCalls[c].result.threw
                   /\ sigCalls[c].result.value = (signed = sigCalls[c].payload)

\* C3 witness: the signature of another payload was checked and refused.
C3_Witness ==
    /\ sigCalls # <<>>
    /\ sigCalls[1].payload.pad = 0
    /\ sigCalls[1].signature = SignatureOf(Wire(TRUE, sigCalls[1].payload.doc, 1))
    /\ ~sigCalls[1].result.threw
    /\ sigCalls[1].result.value = FALSE

\* C4: in production mode a webhook POST without signature header is
\* answered 403 and none of its entries is processed.
C4_ProductionRequiresSignature ==
    (PostHandled /\ config.nodeEnv = "production" /\ req.signature = None)
        => /\ lookups = <<>>
           /\ handled = <<>>
           /\ pc = "ready"
           /\ Len(responses) = 1 /\ responses[1].status = 403

\* C5: verifyWebhookToken returns the challenge exactly when mode is
\* "subscribe" and the token is the configured verify token, character for
\* character, and null otherwise; and the call changes neither the
\* configuration nor the store.
C5_Returns ==
    req.kind = "webhookGet"
        => req.verifiedChallenge =
              IF req.mode = Some("subscribe") /\ req.token # None
                 /\ req.token[1] = config.verifyToken
              THEN [isNull |-> FALSE, value |-> req.challenge]
              ELSE [isNull |-> TRUE, value |-> None]

C5_VerifyTokenExactAndPure ==
    /\ [] C5_Returns
    /\ [][req'.kind = "webhookGet" => UNCHANGED <<config, instances>>]_vars

\* C5 witness: the handshake succeeded with a non-empty configured token.
C5_Witness ==
    /\ req.kind = "webhookGet"
    /\ config.verifyToken # ""
    /\ req.token = Some(config.verifyToken)
    /\ req.mode = Some("subscribe")
    /\ req.verifiedChallenge = [isNull |-> FALSE, value |-> Some("12345")]

\* C6: a GET to the webhook endpoint is answered 200 with the plain-text
\* body hub.challenge whenever hub.mode is "subscribe" and hub.verify_token
\* is the configured token, for every value of hub.challenge, the empty
\* string included; every other GET is answered 403.
C6_HandshakeEchoesEveryChallenge ==
    req.kind = "webhookGet"
        => IF req.mode = Some("subscribe") /\ req.token = Some(config.verifyToken)
           THEN req.challenge # None
                    => responses = <<Text(200, "text/plain", req.challenge[1])>>
           ELSE Len(responses) = 1 /\ responses[1].status = 403

\* the three hub parameters of a callback make a verification probe
IsProbe == req.mode = Some("subscribe") /\ Truthy(req.token) /\ Truthy(req.challenge)

\* what the webhook GET endpoint answers to the hub parameters of req
WebhookGetAnswer == VerifyResponse(config.verifyToken, req.mode, req.token, req.challenge)

\* C7 as stated: for every combination of hub.mode, hub.verify_token and
\* hub.challenge supplied in the query, the OAuth callback answers with the
\* status and body the webhook GET endpoint gives for the same three values,
\* and does not go on to the processing of the authorization code.
C7_Original_CallbackAnswersLikeWebhookGet ==
    (req.kind = "oauthCallback"
     /\ req.mode # None /\ req.token # None /\ req.challenge # None)
        => pc = "ready" /\ responses = <<WebhookGetAnswer>>

\* C7 (amended): for every callback whose query has hub.mode "subscribe"
\* and a non-empty hub.verify_token and hub.challenge, the OAuth callback
\* answers at once with the status and body the webhook GET endpoint gives
\* for the same three values (200 and the challenge, or 403) and does no
\* processing of an authorization code; every other callback, whatever hub
\* parameters it carries, goes to the processing of the authorization code
\* and is answered with a redirect only.
C7_ProbeAnsweredLikeWebhookGet ==
    req.kind = "oauthCallback" =>
        IF IsProbe
        THEN pc = "ready" /\ responses = <<WebhookGetAnswer>> /\ oauth = NoLocals
        ELSE /\ \A n \in 1..Len(responses) : responses[n].status = 302
             /\ Len(responses) = IF pc = "ready" THEN 1 ELSE 0

\* C7 witness: a probe with the configured token that also carries a code
\* and a state was answered 200 with the challenge.
C7_Witness ==
    /\ req.kind = "oauthCallback"
    /\ IsProbe
    /\ req.token = Some(config.verifyToken)
    /\ req.code # None /\ req.state # None
    /\ responses = <<Text(200, "text/plain", "12345")>>

\* The events of an entry that are valid: a message with a sender id and a
\* text, a change of field comments whose value has an id and a text.
ValidMessages(entryItem) ==
    IF entryItem.messaging.kind # "array" THEN {}
    ELSE {m \in {entryItem.messaging.items[i] : i \in 1..Len(entryItem.messaging.items)} :
             ~m.isNull /\ Truthy(m.senderId) /\ Truthy(m.text)}

ValidComments(entryItem) ==
    IF entryItem.changes.kind # "array" THEN {}
    ELSE {c \in {entryItem.changes.items[i] : i \in 1..Len(entryItem.changes.items)} :
             /\ ~c.isNull /\ c.field = "comments" /\ c.value # None
             /\ Truthy(c.value[1].id) /\ Truthy(c.value[1].text)}

Calls(k, handler) ==
    LET Test(c) == c.entry = k /\ c.handler = handler
    IN  SelectSeq(handled, Test)

HandledSet(k, handler) == {Calls(k, handler)[i] : i \in 1..Len(Calls(k, handler))}

\* an answered POST that passed the signature gate with a list of entries
RoutedDone ==
    /\ PostDone
    /\ SignatureAccepted
    /\ ~req.body[1].isNull
    /\ req.body[1].object = Some("instagram")
    /\ req.body[1].entry.kind = "array"

\* C8: in an envelope with entries of known and of unknown accounts in any
\* order, every valid event of every entry whose account is known reaches
\* its handler, and the request is answered 200.
C8_KnownEntriesAlwaysHandled ==
    RoutedDone =>
        /\ responses = <<StatusOk>>
        /\ \A k \in 1..Len(req.body[1].entry.items) :
              LET entryItem == req.body[1].entry.items[k]
              IN  (~entryItem.isNull /\ entryItem.id = KnownAccount) =>
                     /\ \A m \in ValidMessages(entryItem) :
                           \E c \in HandledSet(k, "processDirectMessage") :
                               c.senderId = m.senderId[1] /\ c.text = m.text[1]
                     /\ \A ch \in ValidComments(entryItem) :
                           \E c \in HandledSet(k, "processComment") :
                               c.commentId = ch.value[1].id[1] /\ c.text = ch.value[1].text[1]

\* The message events of an entry that are to reach the message-handling
\* point, in order, as the invocations they are to cause.  Kept(_) tells
\* which field values count as present.
ExpectedMessageCalls(k, entryItem, Kept(_)) ==
    IF entryItem.messaging.kind # "array" THEN <<>>
    ELSE LET Test(m) == ~m.isNull /\ Kept(m.senderId) /\ Kept(m.text)
             kept == SelectSeq(entryItem.messaging.items, Test)
         IN  [i \in 1..Len(kept) |->
                 [handler |-> "processDirectMessage", entry |-> k,
                  instance |-> entryItem.id,
                  senderId |-> kept[i].senderId[1], text |-> kept[i].text[1],
                  timestamp |-> kept[i].timestamp]]

Defined(opt) == opt # None

MessagesReachHandler(Kept(_)) ==
    PostHandled =>
        \A n \in 1..Len(lookups) :
            lookups[n].result = "found" =>
                Calls(lookups[n].entry, "processDirectMessage")
                    = ExpectedMessageCalls(lookups[n].entry,
                                           req.body[1].entry.items[lookups[n].entry], Kept)

\* C9 as stated: for an entry whose account resolves, a message event
\* reaches the message-handling point exactly once, with the account and the
\* event's sender id, text and timestamp, iff its sender id and its text are
\* both present (defined); other message events cause no invocation and no
\* exception.
C9_Original_DefinedFieldsReachHandler == MessagesReachHandler(Defined)

\* C9 (amended): the same, for the message events whose sender id and text
\* are both present and not the empty string; a message event with a
\* missing or empty sender id or text, or a null event, causes no invocation
\* and does not stop the events after it.
C9_NonEmptyFieldsReachHandlerOnce == MessagesReachHandler(Truthy)

\* C9 witness: the entry with all message samples resolved; the complete
\* message and the message without timestamp reached the handling point,
\* the four others did not.
C9_Witness ==
    /\ PostHandled
    /\ Len(lookups) = 1 /\ lookups[1].result = "found"
    /\ req.body[1].entry.items[1] = EntrySamples[1]
    /\ Len(handled) = 2
    /\ handled[1].text = "hi" /\ handled[1].timestamp = Some(1700000000)
    /\ handled[2].senderId = "u2" /\ handled[2].timestamp = None

\* a POST whose envelope has an object value other than "instagram"
OtherObjectDone ==
    PostDone /\ ~req.body[1].isNull /\ req.body[1].object # Some("instagram")

\* C10 as stated: a webhook POST whose envelope has an object value other
\* than "instagram" is answered 200 {status:'ok'} without account lookup
\* and without handler invocation, whatever its entry list contains.
C10_Original_OtherObjectAlways200 ==
    OtherObjectDone => responses = <<StatusOk>> /\ lookups = <<>> /\ handled = <<>>

\* C10 (amended): such a POST causes no account lookup and no handler
\* invocation, whatever its entry list contains; it is answered 200
\* {status:'ok'} when its signature header is absent or verifies, and is
\* never answered with anything but that 200 or the 403 of the signature
\* check.
C10_OtherObjectIgnored ==
    OtherObjectDone =>
        /\ lookups = <<>> /\ handled = <<>>
        /\ responses \in {<<StatusOk>>, <<InvalidSignature>>}
        /\ SignatureAccepted
               => responses = <<StatusOk>>

\* C10 witness: a signed envelope of another object with two entries of the
\* known account was answered 200 and nothing was looked up.
C10_Witness ==
    /\ OtherObjectDone
    /\ req.body[1].object = Some("page")
    /\ req.signature = SignatureOf(req.wire)
    /\ req.body[1].entry = Array(<<EntrySamples[1], EntrySamples[2]>>)
    /\ responses = <<StatusOk>> /\ lookups = <<>> /\ handled = <<>>

C12_OneInstancePerAccount ==
    \A i, j \in instances : i.instagramAccountId = j.instagramAccountId => i = j

C14_MissingSignatureReturnsFalse ==
    \A n \in DOMAIN sigCalls :
        sigCalls[n].signature \in {None, Some(<<>>)} =>
            /\ ~sigCalls[n].result.threw
            /\ sigCalls[n].result.value = FALSE
            /\ sigCalls[n].result.crypto = <<>>
C14_Witness ==
    /\ req.kind = "validate"
    /\ Len(sigCalls) = 1
    /\ sigCalls[1].signature = Some(<<>>)
    /\ sigCalls[1].result = [threw |-> FALSE, value |-> FALSE, crypto |-> <<>>]

\* C15: when the account lookup of one entry fails (the store call rejects),
\* that entry is skipped as if its account had not been found, no event of it
\* reaching a handler, and every later entry of the envelope that names an
\* account is still looked up.
C15_RejectedLookupSkipsOnlyItsEntry ==
    PostDone =>
        \A n \in DOMAIN lookups :
            lookups[n].result = "rejected" =>
                /\ \A c \in DOMAIN handled : handled[c].entry # lookups[n].entry
                /\ \A k \in (lookups[n].entry + 1)..Len(req.body[1].entry.items) :
                      ~req.body[1].entry.items[k].isNull =>
                          \E m \in DOMAIN lookups : lookups[m].entry = k

\* C16: when the processing of one entry raises an exception (the entry is
\* null, its messaging or changes is not a sequence, a change is null), the
\* exception is caught and does not end the batch: as long as no lookup is
\* rejected, every entry of the envelope that names an account, those after
\* the entry of the exception included, is looked up.
C16_ExceptionInEntryKeepsLaterEntries ==
    (RoutedDone /\ \A n \in DOMAIN lookups : lookups[n].result # "rejected") =>
        \A k \in 1..Len(req.body[1].entry.items) :
            ~req.body[1].entry.items[k].isNull =>
                \E m \in DOMAIN lookups : lookups[m].entry = k

\* The message events without timestamp, with a sender id and a text, of the
\* entries whose account was found, each with the index of its entry.
Untimed(m) == ~m.isNull /\ Truthy(m.senderId) /\ Truthy(m.text) /\ m.timestamp = None
UntimedMessages ==
    IF ~PostHandled THEN {}
    ELSE UNION {LET k == lookups[n].entry
                    messaging == req.body[1].entry.items[k].messaging
                IN  IF lookups[n].result = "found" /\ messaging.kind = "array"
                    THEN {<<k, messaging.items[i]>> :
                             i \in {j \in DOMAIN messaging.items : Untimed(messaging.items[j])}}
                    ELSE {} :
                n \in DOMAIN lookups}

ReachedHandler(k, m) ==
    \E c \in HandledSet(k, "processDirectMessage") :
        c.senderId = m.senderId[1] /\ c.text = m.text[1] /\ c.timestamp = m.timestamp

\* C17 as stated: a message event that lacks a timestamp is dropped: it does
\* not reach the message-handling point even when its sender id and its text
\* are both present.
C17_Original_UntimedMessageDropped ==
    \A e \in UntimedMessages : ~ReachedHandler(e[1], e[2])

\* C17 (amended): a message event that lacks a timestamp is not dropped: when
\* its sender id and its text are both present and not empty, and the account
\* of its entry resolves, it reaches the message-handling point, with an
\* undefined timestamp.
C17_UntimedMessageReachesHandler ==
    \A e \in UntimedMessages : ReachedHandler(e[1], e[2])
C17_Witness ==
    /\ UntimedMessages # {}
    /\ \E c \in DOMAIN handled :
          /\ handled[c].handler = "processDirectMessage"
          /\ handled[c].timestamp = None
          /\ handled[c].senderId = "u2"

\* the changes of a list that come before its first null change
RECURSIVE BeforeNull(_)
BeforeNull(items) ==
    IF items = <<>> \/ Head(items).isNull THEN <<>>
    ELSE <<Head(items)>> \o BeforeNull(Tail(items))

\* The change events of an entry that are to reach the comment-handling
\* point, in order, as the invocations they are to cause.  Kept(_) tells
\* which field values count as present, Reach(_) which changes of the list
\* the changes loop gets to.
ExpectedCommentCalls(k, entryItem, Kept(_), Reach(_)) ==
    IF entryItem.changes.kind # "array" THEN <<>>
    ELSE LET Test(c) == /\ ~c.isNull /\ c.field = "comments" /\ c.value # None
                        /\ Kept(c.value[1].id) /\ Kept(c.value[1].text)
             kept == SelectSeq(Reach(entryItem.changes.items), Test)
         IN  [i \in 1..Len(kept) |->
                 [handler |-> "processComment", entry |-> k, instance |-> entryItem.id,
                  commentId |-> kept[i].value[1].id[1], text |-> kept[i].value[1].text[1],
                  fromId |-> kept[i].value[1].fromId,
                  fromUsername |-> kept[i].value[1].fromUsername,
                  mediaId |-> kept[i].value[1].mediaId]]

AllChanges(items) == items

C19_EntriesAndEventsInPayloadOrder ==
    PostHandled =>
        /\ \A n, m \in DOMAIN lookups : n < m => lookups[n].entry < lookups[m].entry
        /\ \A i, j \in DOMAIN handled : i < j => handled[i].entry <= handled[j].entry
        /\ pc = "lookup" =>
              /\ \A n \in DOMAIN lookups : lookups[n].entry < cursor
              /\ \A c \in DOMAIN handled : handled[c].entry < cursor
        /\ \A n \in DOMAIN lookups :
              LET k == lookups[n].entry
                  entryItem == req.body[1].entry.items[k]
              IN  lookups[n].result = "found" =>
                     /\ Calls(k, "processDirectMessage")
                            = ExpectedMessageCalls(k, entryItem, Truthy)
                     /\ Calls(k, "processComment")
                            = IF entryItem.messaging.kind = "scalar" THEN <<>>
                              ELSE ExpectedCommentCalls(k, entryItem, Truthy, BeforeNull)
C19_Witness ==
    /\ PostHandled
    /\ req.body[1].entry.kind = "array"
    /\ req.body[1].entry.items = <<EntrySamples[3], EntrySamples[2]>>
    /\ pc = "lookup" /\ cursor = 2
    /\ Len(lookups) = 1 /\ lookups[1].entry = 1
    /\ Len(handled) = 4
    /\ handled[1].handler = "processDirectMessage" /\ handled[1].senderId = "u2"
    /\ handled[2].handler = "processDirectMessage" /\ handled[2].senderId = "u1"
    /\ handled[3].handler = "processComment" /\ handled[3].commentId = "c3"
    /\ handled[4].handler = "processComment" /\ handled[4].commentId = "c1"

\* C20 as stated: the acknowledgement of a webhook POST is sent immediately:
\* the 200 response does not wait for the account lookups and the handling
\* of the events, so it has been sent while a lookup is awaited.
C20_Original_AcknowledgedBeforeProcessing ==
    (PostHandled /\ pc = "lookup") => responses = <<StatusOk>>

\* C20 (amended): the acknowledgement of a webhook POST is sent last: the 200
\* response waits for the account lookups and the handling of the events of
\* the request to end; as long as a lookup is awaited nothing has been
\* sent, and no lookup is made and no event handled after the response.
C20_AcknowledgedAfterProcessing ==
    PostHandled =>
        /\ pc = "lookup" => responses = <<>>
        /\ responses # <<>> => pc = "ready"
C20_Witness ==
    /\ PostHandled
    /\ pc = "lookup" /\ cursor = 2
    /\ Len(lookups) = 1 /\ lookups[1].result = "found"
    /\ handled # <<>>
    /\ responses = <<>>

\* C21: handling a webhook request, the GET of the verification or the POST
\* of a delivery, leaves the account store as it was: no step taken for such
\* a request creates, updates or deletes an instance record, whatever the
\* payload and whatever the lookups answer.
C21_WebhookLeavesStoreUnchanged ==
    [][(req.kind \in {"webhookPost", "webhookGet"} \/ req'.kind \in {"webhookPost", "webhookGet"})
          => instances' = instances]_vars
C21_Witness ==
    /\ PostDone
    /\ \E n \in DOMAIN lookups : lookups[n].result = "null" /\ lookups[n].accountId = UnknownAccount
    /\ \E n \in DOMAIN lookups : lookups[n].result = "found"
    /\ handled # <<>>
    /\ instances = {StoredInstance}

\* C22: whenever the webhook POST handler calls validateWebhookSignature, the
\* payload it passes is the byte sequence received on the wire for that
\* request, never a re-serialization of the parsed body.
C22_SignatureCheckedOverWireBytes ==
    req.kind = "webhookPost" =>
        \A n \in DOMAIN sigCalls : sigCalls[n].payload = req.wire

C24_NoTokenConfiguredNoHandshake ==
    (req.kind = "webhookGet" /\ config.verifyToken = "") =>
        /\ Len(responses) = 1
        /\ responses[1].status = 403

\* C25: validateWebhookSignature accepts a header only if it begins with the
\* prefix "sha256=": the bare hex digest without prefix, and a header with
\* the text "sha256=" anywhere but at its start, are rejected.
C25_AcceptedHeaderBeginsWithPrefix ==
    \A n \in DOMAIN sigCalls :
        (~sigCalls[n].result.threw /\ sigCalls[n].result.value) =>
            /\ sigCalls[n].signature # None
            /\ Len(sigCalls[n].signature[1]) >= Len(Sha256Prefix)
            /\ SubSeq(sigCalls[n].signature[1], 1, Len(Sha256Prefix)) = Sha256Prefix

\* the exchange for a long-lived token failed: what it resolved to carries
\* the short-lived token
FellBack ==
    /\ req.kind = "oauthCallback"
    /\ oauth.shortLivedTokenData # None
    /\ oauth.longLivedTokenData # None
    /\ oauth.longLivedTokenData[1].access_token = oauth.shortLivedTokenData[1].access_token

SuccessRedirected ==
    /\ Len(responses) = 1
    /\ oauth.instance # None
    /\ responses[1]
           = Redirect("success=instagram_connected&instanceId=" \o ToString(oauth.instance[1].id))

\* C26: whenever the exchange of the short-lived for a long-lived token
\* fails, the OAuth callback goes on: exchangeShortLivedForLongLivedToken
\* does not throw (no error redirect is sent on its account) but resolves to
\* the short-lived token with token_type "bearer" and expires_in 3600, and
\* the instance that is then created or updated holds that token with
\* isLongLived = false, in the store as well once the callback has
\* succeeded.
C26_FailedExchangeFallsBackToShortToken ==
    FellBack =>
        /\ oauth.longLivedTokenData[1]
               = [access_token |-> oauth.shortLivedTokenData[1].access_token,
                  token_type |-> "bearer", expires_in |-> Some(3600)]
        /\ pc \in {"userInfo", "find"} => responses = <<>>
        /\ oauth.instance # None =>
              /\ oauth.instance[1].accessToken = oauth.shortLivedTokenData[1].access_token
              /\ oauth.instance[1].tokenType = "bearer"
              /\ oauth.instance[1].expiresIn = 3600
              /\ oauth.instance[1].isLongLived = FALSE
        /\ SuccessRedirected => oauth.instance[1] \in instances
C26_Witness ==
    /\ FellBack
    /\ SuccessRedirected
    /\ oauth.instance[1].instagramAccountId = NewAccount
    /\ oauth.instance[1].accessToken = "IGQ-short"
    /\ oauth.instance[1].isLongLived = FALSE
    /\ oauth.instance[1] \in instances

\* the redirects of oauthCallback that carry an error code
ErrorRedirects ==
    {Redirect("error=oauth_failed"), Redirect("error=invalid_callback"),
     Redirect("error=invalid_state"), Redirect("error=connection_failed")}

\* an OAuth callback that is no verification probe has ended without having
\* found or created an instance
CallbackFailedEarly ==
    /\ req.kind = "oauthCallback"
    /\ ~CallbackProbe(req.mode, req.token, req.challenge)
    /\ pc = "ready"
    /\ oauth.instance = None

\* C27: an OAuth callback (no verification probe) that fails at a step before
\* persistence (error parameter, missing code or state, state that cannot be
\* decoded, failed exchange of the code, failed user-info request, failed
\* lookup) ends in exactly one response, a redirect with an error code:
\* never the success redirect, never a response of the error middleware.
\* And it leaves the store as it was: a callback that holds an instance
\* keeps holding one, and every step of a callback that holds none leaves
\* the store unchanged.
C27_EarlyFailureRedirectsWithError ==
    /\ [](CallbackFailedEarly => Len(responses) = 1 /\ responses[1] \in ErrorRedirects)
    /\ [][/\ (req'.kind = "oauthCallback" /\ oauth'.instance = None) => instances' = instances
          /\ (req.kind = "oauthCallback" /\ req'.kind = "oauthCallback" /\ oauth.instance # None)
                => oauth'.instance # None]_vars
C27_Witness ==
    /\ CallbackFailedEarly
    /\ oauth.longLivedTokenData # None
    /\ oauth.userInfo = None
    /\ responses = <<Redirect("error=connection_failed")>>
    /\ instances = {StoredInstance}

\* C28: a failure of the automatic webhook subscription neither undoes nor
\* fails a connect.  subscribeToWebhook resolves (to false) instead of
\* throwing, so once it has settled the callback has answered with the
\* success redirect, and the new instance is in the store with status
\* "connected"; the step in which it settles leaves the store unchanged.
\* The subscription is attempted only for a new instance: it is awaited
\* only right after a record was added to the store, and a callback that
\* saves an instance it found ends without one.
C28_SubscriptionFailureKeepsConnect ==
    /\ [](/\ (req.kind = "oauthCallback" /\ oauth.subscribed # None) =>
                /\ pc = "ready"
                /\ SuccessRedirected
                /\ oauth.instance[1] \in instances
                /\ oauth.instance[1].status = "connected"
          /\ pc = "save" => oauth.subscribed = None)
    /\ [][/\ (pc = "subscribe" /\ pc' # "subscribe") => instances' = instances
          /\ (pc # "subscribe" /\ pc' = "subscribe") =>
                /\ pc = "create"
                /\ oauth'.instance # None
                /\ oauth'.instance[1] \in instances' \ instances
          /\ pc = "save" => (pc' \in {"save", "ready"} /\ oauth'.subscribed = None)]_vars
C28_Witness ==
    /\ req.kind = "oauthCallback"
    /\ oauth.subscribed = Some(FALSE)
    /\ SuccessRedirected
    /\ oauth.instance[1].instagramAccountId = NewAccount
    /\ oauth.instance[1] \in instances
    /\ oauth.instance[1].status = "connected"

\* the request is one of the two that send to the platform
SendsToPlatform == req.kind \in {"sendMessage", "replyComment"}

\* its required fields are present (instanceId and message, and recipientId
\* for a direct message) and the instance it names is in the store
RequiredAndInstanceExists ==
    /\ Truthy(req.instanceId)
    /\ Truthy(req.message)
    /\ req.kind = "sendMessage" => Truthy(req.recipientId)
    /\ \E inst \in instances : ToString(inst.id) = req.instanceId[1]

\* C29: sendMessage and replyComment send to the platform only when all
\* required fields are present and the instance named exists; in every
\* other case the request ends with a 400 validation error and nothing is
\* sent.
C29_OutboundOnlyForValidRequests ==
    SendsToPlatform =>
        /\ outbound # <<>> => RequiredAndInstanceExists
        /\ (pc = "ready" /\ ~RequiredAndInstanceExists) =>
              /\ outbound = <<>>
              /\ Len(responses) = 1
              /\ responses[1].status = 400

\* the values the two secret fields of a stored instance may hold
InstanceTokenSamples == {"tok1", "tok9"}
AccessTokenSamples == {"IGQ-long", "IGQ-other"}

\* the stores that differ from store at most in the token and the accessToken
\* of their instances
SecretVariants(store) ==
    {{[inst EXCEPT !.token = secrets[inst].token, !.accessToken = secrets[inst].accessToken] :
         inst \in store} :
       secrets \in [store -> [token : InstanceTokenSamples, accessToken : AccessTokenSamples]]}

ReadsInstances == req.kind \in {"listInstances", "getInstance"}

\* the views a response of listInstances or getInstance carries
ViewsAnswered == {responses[1].data[i] : i \in 1..Len(responses[1].data)}

\* C30: the responses of listInstances and getInstance carry no accessToken
\* and no instance token, and every store that differs from the actual one
\* only in those two fields gives the same response to the same request.
C30_ResponsesIndependentOfTokens ==
    (ReadsInstances /\ pc = "ready" /\ Len(responses) = 1 /\ responses[1].status # 500) =>
        /\ responses[1].status = 200 =>
              \A view \in ViewsAnswered : DOMAIN view \cap {"token", "accessToken"} = {}
        /\ \A twin \in SecretVariants(instances) :
              /\ (req.kind = "listInstances" /\ responses[1].status = 200) =>
                    responses[1] = ListResponse(twin, req.userId[1])
              /\ req.kind = "getInstance" =>
                    LET found == findInstanceById(twin, req.id[1])
                    IN  IF found = {} THEN responses[1].status = 400
                        ELSE /\ responses[1].status = 200
                             /\ \A inst \in found : responses[1] = Success(<<InstanceView(inst)>>)

\* listInstances has answered with the views of the two instances of a
\* store whose tokens could have been others, the newest first
C30_Witness ==
    /\ req.kind = "listInstances"
    /\ pc = "ready"
    /\ Len(responses) = 1
    /\ responses[1].status = 200
    /\ Len(responses[1].data) = 2
    /\ responses[1].data[1].id = SecondInstance.id
    /\ Cardinality(SecretVariants(instances)) > 1
====
